---- MODULE Spec2Model ----
(***************************************************************************)
(* Model of src/modules.py: the residual wrapper, the mean / max / GAT     *)
(* neighbourhood aggregation modules, the constructors that validate       *)
(* dim against num_heads, and the features preparator.                     *)
(*                                                                         *)
(* Tensors are modelled by their shape (a sequence of axis sizes) and,     *)
(* where a claim is about values, by their entries.  Each component has    *)
(* its own specification (SpecResidual, SpecMean, SpecMax, SpecCtor,       *)
(* SpecGat, SpecPrep); the variables of the other components stay idle.    *)
(***************************************************************************)
EXTENDS Integers, Sequences, FiniteSets, TLC

(* ------------------------------ bounds --------------------------------- *)
MaxModules == 2
MaxNodes == 2
MaxDim == 2
AggrNodes == 3
AggrEdges == 3
AggrDim == 1
FiniteMax == 1
CtorMaxDim == 4
CtorMaxHeads == 3
GatNodes == 2
GatDim == 2
MaxFeatures == 3
MaxEmbedding == 2
MaxRows == 2

VARIABLES
  \* ResidualModulesWrapper
  r_pc,            \* "new", "ready", "loop", "done"
  r_arg,           \* the constructor argument `modules`
  wrapped_modules, \* self.wrapped_modules, each with its takes_graph_as_input
  r_graph,         \* forward's graph argument
  r_x,             \* forward's x argument
  x_res,           \* the chain value
  r_idx,           \* position of the for loop over wrapped_modules
  r_calls,         \* the sub-module invocations of the current call, in order
  r_status,        \* "none", "ok", "module_error", "add_error"
  r_ret,           \* the returned tensor
  \* GraphMeanAggregationModule / GraphMaxAggregationModule
  a_pc,            \* "start", "aggregated", "masked", "done"
  a_op,            \* "mean" or "max": the module whose forward runs
  a_graph,         \* forward's graph: [n |-> nodes, edges |-> set of <<u, v>>]
  a_x,             \* forward's x: a_x[v][k], shape [n, d]
  x_aggregated,    \* the aggregated neighbour features
  a_out,           \* the returned tensor
  \* constructors of the modules that validate dim against num_heads
  c_pc,            \* "start", "constructed", "raised"
  c_cls,           \* the class under construction
  c_dim,           \* the dim argument
  c_heads,         \* the num_heads argument
  c_step,          \* position in the constructor's body
  c_attrs,         \* the attributes set on self so far
  \* GraphAttnGATAggregationModule.forward
  g_pc,            \* "start", "scored", "reshaped", "aggregated", "done"
  g_self,          \* the constructed module: dim, num_heads, head_dim
  g_graph,         \* forward's graph
  g_x0,            \* forward's x argument as passed in
  g_x,             \* the local variable x
  attn_probs,      \* the edge-softmax output
  g_agg,           \* the local variable x_aggregated
  g_status,        \* "none", "ok", "error"
  g_out,           \* the returned tensor
  \* FeaturesPreparatorForDeepModels
  p_pc,            \* "new", "raised", "constructed", "num", "targets", "emb", "done"
  p_cfg,           \* the constructor's arguments
  output_dim,      \* self.output_dim
  num_features_mask,  \* the registered buffer
  past_targets_mask,  \* the registered buffer
  p_lead,          \* forward's x: the sizes of the axes before the last
  p_x,             \* forward's x: the columns of its last axis
  p_status         \* "none", "ok", "error"

resVars == <<r_pc, r_arg, wrapped_modules, r_graph, r_x, x_res, r_idx, r_calls,
             r_status, r_ret>>

aggVars == <<a_pc, a_op, a_graph, a_x, x_aggregated, a_out>>

ctorVars == <<c_pc, c_cls, c_dim, c_heads, c_step, c_attrs>>

gatVars == <<g_pc, g_self, g_graph, g_x0, g_x, attn_probs, g_agg, g_status, g_out>>

prepVars == <<p_pc, p_cfg, output_dim, num_features_mask, past_targets_mask, p_lead,
              p_x, p_status>>

vars == <<resVars, aggVars, ctorVars, gatVars, prepVars>>

(* ------------------------------ helpers -------------------------------- *)
Last(s) == s[Len(s)]

Front(s) == SubSeq(s, 1, Len(s) - 1)

(* torch.cat on shapes along the last axis: the operands must have the     *)
(* same number of axes and agree on every axis but the last.               *)
CatShapeOk(a, b) ==
  /\ Len(a) = Len(b)
  /\ Len(a) >= 1
  /\ \A i \in 1..(Len(a) - 1) : a[i] = b[i]

CatShape(a, b) == [i \in 1..Len(a) |-> IF i = Len(a) THEN a[i] + b[i] ELSE a[i]]

(* Broadcasting of the element-wise addition of two tensors with the same  *)
(* number of axes: an axis pair is compatible when the sizes are equal or  *)
(* one of them is 1.                                                       *)
BroadcastOk(a, b) ==
  /\ Len(a) = Len(b)
  /\ \A i \in 1..Len(a) : a[i] = b[i] \/ a[i] = 1 \/ b[i] = 1

BroadcastShape(a, b) == [i \in 1..Len(a) |-> IF a[i] = 1 THEN b[i] ELSE a[i]]

(* ======================= ResidualModulesWrapper ======================== *)

(* The parameters of each module class's forward.                          *)
ForwardParams(cls) ==
  CASE cls = "FeedForward" -> <<"x">>
    [] cls = "MeanAggr" -> <<"graph", "x">>
    [] cls = "MaxAggr" -> <<"graph", "x">>

Range(s) == {s[i] : i \in DOMAIN s}

(* The sub-modules a wrapper is built from.                                *)
ModuleSet ==
  [cls : {"FeedForward"}, dim : 1..MaxDim, num_inputs : 1..2]
  \cup [cls : {"MeanAggr", "MaxAggr"}, dim : {0}, num_inputs : {0}]

RECURSIVE SeqsUpTo(_, _)
SeqsUpTo(S, n) ==
  IF n = 0 THEN {<<>>}
  ELSE LET shorter == SeqsUpTo(S, n - 1)
       IN shorter \cup {Append(s, e) : s \in {t \in shorter : Len(t) = n - 1}, e \in S}

ModuleLists == SeqsUpTo(ModuleSet, MaxModules)

NoTensor == [shape |-> <<>>, val |-> <<>>]

NoRet == [shape |-> <<>>, lhs |-> <<>>, rhs |-> <<>>]

(* A sub-module's output shape, or <<>> when its forward raises.           *)
ModuleOutShape(m, shape) ==
  IF m.cls = "FeedForward"
  THEN IF Last(shape) = m.dim * m.num_inputs
       THEN Append(Front(shape), m.dim)
       ELSE <<>>
  ELSE CatShape(shape, shape)

TakesGraph(m) == "graph" \in Range(ForwardParams(m.cls))

ResidualInit ==
  /\ r_pc = "new"
  /\ LET modules == IF r_arg.single THEN <<r_arg.modules>> ELSE r_arg.modules
     IN wrapped_modules' =
          [i \in 1..Len(modules) |->
             [module |-> modules[i], takes_graph_as_input |-> TakesGraph(modules[i])]]
  /\ r_pc' = "ready"
  /\ UNCHANGED <<r_arg, r_graph, r_x, x_res, r_idx, r_calls, r_status, r_ret>>
  /\ UNCHANGED <<aggVars, ctorVars, gatVars, prepVars>>

ResidualForwardBegin ==
  /\ r_pc \in {"ready", "done"}
  /\ \E g \in {"g1", "g2"}, n \in 1..MaxNodes, d \in 1..MaxDim :
       /\ r_graph' = g
       /\ r_x' = [shape |-> <<n, d>>, val |-> <<>>]
       /\ x_res' = [shape |-> <<n, d>>, val |-> <<>>]
  /\ r_idx' = 1
  /\ r_calls' = <<>>
  /\ r_status' = "none"
  /\ r_ret' = NoRet
  /\ r_pc' = "loop"
  /\ UNCHANGED <<r_arg, wrapped_modules>>
  /\ UNCHANGED <<aggVars, ctorVars, gatVars, prepVars>>

(* A faulty variant of CallModule: the graph goes to every sub-module.     *)
CallModuleAlwaysGraph(w, i) ==
  [idx |-> i, module |-> w.module, graph |-> r_graph]

(* One sub-module invocation: which module, and the graph it received.     *)
CallModule(w, i) ==
  [idx |-> i, module |-> w.module,
   graph |-> IF w.takes_graph_as_input THEN r_graph ELSE "none"]

ResidualForwardCall ==
  /\ r_pc = "loop"
  /\ r_idx <= Len(wrapped_modules)
  /\ LET w == wrapped_modules[r_idx]
         call == CallModule(w, r_idx)
         out == ModuleOutShape(w.module, x_res.shape)
     IN /\ r_calls' = Append(r_calls, call)
        /\ IF out = <<>>
           THEN /\ r_status' = "module_error"
                /\ r_pc' = "done"
                /\ UNCHANGED <<x_res, r_idx>>
           ELSE /\ x_res' = [shape |-> out, val |-> Append(x_res.val, call)]
                /\ r_idx' = r_idx + 1
                /\ UNCHANGED <<r_status, r_pc>>
  /\ UNCHANGED <<r_arg, wrapped_modules, r_graph, r_x, r_ret>>
  /\ UNCHANGED <<aggVars, ctorVars, gatVars, prepVars>>

ResidualForwardAdd ==
  /\ r_pc = "loop"
  /\ r_idx > Len(wrapped_modules)
  /\ IF BroadcastOk(r_x.shape, x_res.shape)
     THEN /\ r_ret' = [shape |-> BroadcastShape(r_x.shape, x_res.shape),
                       lhs |-> r_x.val, rhs |-> x_res.val]
          /\ r_status' = "ok"
     ELSE /\ r_status' = "add_error"
          /\ UNCHANGED r_ret
  /\ r_pc' = "done"
  /\ UNCHANGED <<r_arg, wrapped_modules, r_graph, r_x, x_res, r_idx, r_calls>>
  /\ UNCHANGED <<aggVars, ctorVars, gatVars, prepVars>>

(* ---------------------- claims on the residual wrapper ------------------ *)

(* The invocations a manual chaining of the constructor's modules makes:   *)
(* module i on the running value, with the graph only when its forward     *)
(* declares a parameter named graph.                                       *)
ManualChain(mods, g) ==
  [i \in 1..Len(mods) |->
     [idx |-> i, module |-> mods[i],
      graph |-> IF \E k \in DOMAIN ForwardParams(mods[i].cls) :
                     ForwardParams(mods[i].cls)[k] = "graph"
                THEN g ELSE "none"]]

GivenModules == IF r_arg.single THEN <<r_arg.modules>> ELSE r_arg.modules

(* C1: forward invokes every wrapped sub-module exactly once, in list      *)
(* order, with the graph exactly when the sub-module's forward declares a  *)
(* graph parameter (a call that a sub-module aborts has made a prefix of   *)
(* these invocations), and a returned value is x + c with c the manual     *)
(* chaining of the same sub-modules on x.                                  *)
C1_ResidualRoutesGraph ==
  r_pc \in {"loop", "done"} =>
    LET expected == ManualChain(GivenModules, r_graph)
    IN /\ Len(r_calls) <= Len(expected)
       /\ r_calls = SubSeq(expected, 1, Len(r_calls))
       /\ (r_pc = "done" /\ r_status \in {"ok", "add_error"}) => r_calls = expected
       /\ (r_pc = "done" /\ r_status = "ok") =>
            /\ r_ret.lhs = r_x.val
            /\ r_ret.rhs = expected

(* A finished call through one graph-aware module followed by one          *)
(* graph-agnostic module.                                                  *)
C1_Witness ==
  /\ r_pc = "done"
  /\ r_status = "ok"
  /\ Len(wrapped_modules) = 2
  /\ wrapped_modules[1].takes_graph_as_input
  /\ ~wrapped_modules[2].takes_graph_as_input
  /\ r_calls[1].graph = r_graph
  /\ r_calls[2].graph = "none"

(* C2: whenever the chain output's shape differs from the shape of x, the  *)
(* call ends in an error raised by the residual addition and returns no    *)
(* value.                                                                  *)
C2_ShapeMismatchRaises ==
  (r_pc = "done" /\ r_status # "module_error" /\ x_res.shape # r_x.shape) =>
    (r_status = "add_error" /\ r_ret = NoRet)

(* ============ GraphMeanAggregationModule / GraphMaxAggregationModule ==== *)

RECURSIVE Factorial(_)
Factorial(n) == IF n <= 1 THEN 1 ELSE n * Factorial(n - 1)

(* Feature values.  Finite values are integers; the mean divides by an     *)
(* in-degree of at most AggrNodes, so the finite values of the mean's      *)
(* inputs are multiples of Unit, which keeps every mean exact.  The two    *)
(* infinities of the floating-point format are the integers beyond the     *)
(* finite range.                                                           *)
Unit == Factorial(AggrNodes)

Inf == FiniteMax + 1

IsInf(v) == v = Inf \/ v = -Inf

MeanValues == {0, Unit}

MaxValues == (-Inf)..Inf

Graphs(n) ==
  [n : {n},
   edges : {E \in SUBSET ((1..n) \X (1..n)) : Cardinality(E) <= AggrEdges}]

Tensors2D(n, d, values) == [1..n -> [1..d -> values]]

InNeighbours(g, v) == {u \in 1..g.n : <<u, v>> \in g.edges}

RECURSIVE SumOver(_, _, _)
SumOver(x, k, S) ==
  IF S = {} THEN 0
  ELSE LET u == CHOOSE u \in S : TRUE
       IN x[u][k] + SumOver(x, k, S \ {u})

MaxOver(x, k, S) == CHOOSE m \in {x[u][k] : u \in S} : \A u \in S : x[u][k] <= m

(* ops.copy_u_mean: per destination node, the mean of the source features  *)
(* over its incoming edges; a node without incoming edges gets zeros.      *)
copy_u_mean(g, x) ==
  [v \in 1..g.n |->
     [k \in 1..Len(x[v]) |->
        LET nbrs == InNeighbours(g, v)
        IN IF nbrs = {} THEN 0 ELSE SumOver(x, k, nbrs) \div Cardinality(nbrs)]]

(* ops.copy_u_max: per destination node, the element-wise maximum of the   *)
(* source features over its incoming edges; a node without incoming edges  *)
(* gets the reduction's negative-infinity sentinel.                        *)
copy_u_max(g, x) ==
  [v \in 1..g.n |->
     [k \in 1..Len(x[v]) |->
        LET nbrs == InNeighbours(g, v)
        IN IF nbrs = {} THEN -Inf ELSE MaxOver(x, k, nbrs)]]

(* torch.cat([a, b], axis=-1) of two [n, *] tensors.                       *)
CatLast(a, b) == [v \in DOMAIN a |-> a[v] \o b[v]]

(* A faulty variant of MeanCat: the aggregate first, the features second.  *)
MeanCatSwapped(x, agg) == CatLast(agg, x)

(* GraphMeanAggregationModule.forward, line 59.                            *)
MeanCat(x, agg) == CatLast(x, agg)

(* GraphMaxAggregationModule.forward, line 70:                             *)
(* x_aggregated[x_aggregated.isinf()] = 0.                                 *)
MaskInf(agg) ==
  [v \in DOMAIN agg |->
     [k \in DOMAIN agg[v] |-> IF IsInf(agg[v][k]) THEN 0 ELSE agg[v][k]]]

(* GraphMaxAggregationModule.forward, line 71.                             *)
MaxCat(x, agg) == CatLast(x, agg)

MeanForwardAggregate ==
  /\ a_pc = "start"
  /\ a_op = "mean"
  /\ x_aggregated' = copy_u_mean(a_graph, a_x)
  /\ a_pc' = "aggregated"
  /\ UNCHANGED <<a_op, a_graph, a_x, a_out>>
  /\ UNCHANGED <<resVars, ctorVars, gatVars, prepVars>>

MeanForwardCat ==
  /\ a_pc = "aggregated"
  /\ a_op = "mean"
  /\ a_out' = MeanCat(a_x, x_aggregated)
  /\ a_pc' = "done"
  /\ UNCHANGED <<a_op, a_graph, a_x, x_aggregated>>
  /\ UNCHANGED <<resVars, ctorVars, gatVars, prepVars>>

MaxForwardAggregate ==
  /\ a_pc = "start"
  /\ a_op = "max"
  /\ x_aggregated' = copy_u_max(a_graph, a_x)
  /\ a_pc' = "aggregated"
  /\ UNCHANGED <<a_op, a_graph, a_x, a_out>>
  /\ UNCHANGED <<resVars, ctorVars, gatVars, prepVars>>

MaxForwardMask ==
  /\ a_pc = "aggregated"
  /\ a_op = "max"
  /\ x_aggregated' = MaskInf(x_aggregated)
  /\ a_pc' = "masked"
  /\ UNCHANGED <<a_op, a_graph, a_x, a_out>>
  /\ UNCHANGED <<resVars, ctorVars, gatVars, prepVars>>

MaxForwardCat ==
  /\ a_pc = "masked"
  /\ a_op = "max"
  /\ a_out' = MaxCat(a_x, x_aggregated)
  /\ a_pc' = "done"
  /\ UNCHANGED <<a_op, a_graph, a_x, x_aggregated>>
  /\ UNCHANGED <<resVars, ctorVars, gatVars, prepVars>>

(* -------------------- claims on the mean / max aggregation -------------- *)

FeatDim == Len(a_x[1])

(* C4: the mean aggregation returns a [N, 2*d] tensor whose row for node v *)
(* is x_v followed by the element-wise mean of the feature vectors of v's  *)
(* in-neighbours (the mean m of the values s_1..s_j satisfies              *)
(* m * j = s_1 + ... + s_j).                                               *)
C4_MeanConcat ==
  (a_pc = "done" /\ a_op = "mean") =>
    /\ Len(a_out) = a_graph.n
    /\ \A v \in 1..a_graph.n :
         /\ Len(a_out[v]) = 2 * FeatDim
         /\ \A k \in 1..FeatDim :
              /\ a_out[v][k] = a_x[v][k]
              /\ LET nbrs == InNeighbours(a_graph, v)
                 IN nbrs # {} =>
                      a_out[v][FeatDim + k] * Cardinality(nbrs) = SumOver(a_x, k, nbrs)

(* A node with three in-neighbours whose features differ, and whose mean   *)
(* differs from its own feature.                                           *)
C4_Witness ==
  /\ a_pc = "done"
  /\ a_op = "mean"
  /\ \E v \in 1..a_graph.n :
       /\ Cardinality(InNeighbours(a_graph, v)) = 3
       /\ \E u, w \in InNeighbours(a_graph, v) : a_x[u][1] # a_x[w][1]
       /\ a_out[v][FeatDim + 1] # a_x[v][1]
       /\ a_out[v][FeatDim + 1] # 0

(* C3: the max aggregation returns concat(x, m) where the row of m is all  *)
(* zeros for a node without incoming edges and the element-wise maximum of *)
(* the in-neighbours' feature vectors for every other node.                *)
C3_MaxConcat ==
  (a_pc = "done" /\ a_op = "max") =>
    \A v \in 1..a_graph.n :
      /\ Len(a_out[v]) = 2 * FeatDim
      /\ \A k \in 1..FeatDim :
           /\ a_out[v][k] = a_x[v][k]
           /\ LET nbrs == InNeighbours(a_graph, v)
              IN IF nbrs = {}
                 THEN a_out[v][FeatDim + k] = 0
                 ELSE /\ \A u \in nbrs : a_x[u][k] <= a_out[v][FeatDim + k]
                      /\ \E u \in nbrs : a_x[u][k] = a_out[v][FeatDim + k]

(* ================== constructors that validate dim / num_heads ========= *)

(* utils._check_dim_and_num_heads_consistency: dim must be divisible by    *)
(* num_heads, otherwise a configuration error is raised.                   *)
check_dim_and_num_heads_consistency(dim, num_heads) == dim % num_heads = 0

(* A faulty variant of GATInitBody: the check after the first layer.       *)
GATInitBodyCheckAfterLayer ==
  <<"dim", "num_heads", "head_dim", "attn_linear_u", "check", "attn_linear_v",
    "attn_act">>

(* The statements of each __init__ after super().__init__(), in order:     *)
(* "check" is the call of the consistency check, every other entry the     *)
(* attribute the statement sets.                                           *)
GATInitBody ==
  <<"check", "dim", "num_heads", "head_dim", "attn_linear_u", "attn_linear_v",
    "attn_act">>

TrfInitBody ==
  <<"check", "dim", "num_heads", "head_dim", "attn_scores_multiplier",
    "attn_qkv_linear", "output_linear", "dropout">>

TransformerInitBody ==
  <<"check", "bidir_attn", "attn_mask", "positional_embeddings",
    "transformer_blocks">>

(* The attributes that hold learned parameters.                            *)
LearnedLayers ==
  {"attn_linear_u", "attn_linear_v", "attn_qkv_linear", "output_linear",
   "positional_embeddings", "transformer_blocks"}

(* One statement of a constructor whose statements are body.              *)
InitStep(body) ==
  /\ c_pc = "start"
  /\ IF c_step > Len(body)
     THEN /\ c_pc' = "constructed"
          /\ UNCHANGED <<c_step, c_attrs>>
     ELSE IF body[c_step] = "check"
          THEN IF check_dim_and_num_heads_consistency(c_dim, c_heads)
               THEN /\ c_step' = c_step + 1
                    /\ UNCHANGED <<c_pc, c_attrs>>
               ELSE /\ c_pc' = "raised"
                    /\ UNCHANGED <<c_step, c_attrs>>
          ELSE /\ c_attrs' = c_attrs \cup {body[c_step]}
               /\ c_step' = c_step + 1
               /\ UNCHANGED c_pc
  /\ UNCHANGED <<c_cls, c_dim, c_heads>>
  /\ UNCHANGED <<resVars, aggVars, gatVars, prepVars>>

GATInit ==
  /\ c_cls = "GraphAttnGATAggregationModule"
  /\ InitStep(GATInitBody)

TrfInit ==
  /\ c_cls = "GraphAttnTrfAggregationModule"
  /\ InitStep(TrfInitBody)

TransformerInit ==
  /\ c_cls = "TransformerSequenceEncoderModule"
  /\ InitStep(TransformerInitBody)

(* ------------------------ claim on the constructors --------------------- *)

CtorBody ==
  CASE c_cls = "GraphAttnGATAggregationModule" -> GATInitBody
    [] c_cls = "GraphAttnTrfAggregationModule" -> TrfInitBody
    [] c_cls = "TransformerSequenceEncoderModule" -> TransformerInitBody

(* C5: when dim is not divisible by num_heads, the construction of each of *)
(* the three classes ends in the configuration error, no learned layer is  *)
(* ever created and no constructed instance exists.                        *)
C5_InconsistentHeadsRejected ==
  (c_pc # "idle" /\ c_dim % c_heads # 0) =>
    /\ c_pc # "constructed"
    /\ c_attrs \cap LearnedLayers = {}
    /\ (c_pc = "start" => \A i \in 1..(c_step - 1) : CtorBody[i] # "check")

(* A construction that has been rejected.                                  *)
C5_Witness ==
  /\ c_pc = "raised"
  /\ c_cls = "GraphAttnGATAggregationModule"
  /\ c_dim % c_heads # 0
  /\ c_dim > c_heads

(* ================= GraphAttnGATAggregationModule.forward =============== *)

Known(v) == [kind |-> "value", v |-> v]

(* An entry that is a convex combination fixed by the learned weights.     *)
Mixed == [kind |-> "mixed", v |-> 0]

NoShaped == [shape |-> <<>>, data |-> <<>>]

InEdges(g, v) == {e \in g.edges : e[2] = v}

(* ops.edge_softmax over the [E, H] scores: the probabilities of the edges *)
(* into one node sum to 1 in every head, so the single edge into a node    *)
(* has probability 1; otherwise the learned weights decide.                *)
edge_softmax(g, num_heads) ==
  [shape |-> <<Cardinality(g.edges), num_heads>>,
   data |-> [e \in g.edges |->
               IF Cardinality(InEdges(g, e[2])) = 1 THEN "one" ELSE "learned"]]

(* Tensor.reshape(-1, ...): the row-major entries of each node stay in     *)
(* place, only the shape changes.                                          *)
Reshape(t, shape) == [shape |-> shape, data |-> t.data]

(* ops.u_mul_e_sum(graph, x, probs): per destination node the sum over its *)
(* incoming edges of the source entries times the edge's probability, the  *)
(* [H] probabilities broadcast over the [head_dim, H] entries.             *)
u_mul_e_sum(g, x, probs) ==
  [shape |-> x.shape,
   data |-> [v \in 1..g.n |->
               [k \in 1..Len(x.data[v]) |->
                  LET in == InEdges(g, v)
                  IN IF in = {} THEN Known(0)
                     ELSE IF Cardinality(in) = 1
                          THEN LET e == CHOOSE e \in in : TRUE
                               IN IF probs.data[e] = "one"
                                  THEN x.data[e[1]][k] ELSE Mixed
                          ELSE Mixed]]]

(* lines 90-94: the attention scores and their edge-softmax.               *)
GATForwardScores ==
  /\ g_pc = "start"
  /\ attn_probs' = edge_softmax(g_graph, g_self.num_heads)
  /\ g_pc' = "scored"
  /\ UNCHANGED <<g_self, g_graph, g_x0, g_x, g_agg, g_status, g_out>>
  /\ UNCHANGED <<resVars, aggVars, ctorVars, prepVars>>

(* line 96: x is rebound to its [N, head_dim, num_heads] view.             *)
GATForwardReshape ==
  /\ g_pc = "scored"
  /\ g_x' = Reshape(g_x, <<g_graph.n, g_self.head_dim, g_self.num_heads>>)
  /\ g_pc' = "reshaped"
  /\ UNCHANGED <<g_self, g_graph, g_x0, attn_probs, g_agg, g_status, g_out>>
  /\ UNCHANGED <<resVars, aggVars, ctorVars, prepVars>>

(* lines 97-98: the weighted sum, reshaped to [N, dim].                    *)
GATForwardAggregate ==
  /\ g_pc = "reshaped"
  /\ g_agg' = Reshape(u_mul_e_sum(g_graph, g_x, attn_probs), <<g_graph.n, g_self.dim>>)
  /\ g_pc' = "aggregated"
  /\ UNCHANGED <<g_self, g_graph, g_x0, g_x, attn_probs, g_status, g_out>>
  /\ UNCHANGED <<resVars, aggVars, ctorVars, prepVars>>

(* lines 100-102: torch.cat([x, x_aggregated], axis=-1) and the return.    *)
GATForwardCat ==
  /\ g_pc = "aggregated"
  /\ IF CatShapeOk(g_x.shape, g_agg.shape)
     THEN /\ g_out' = [shape |-> CatShape(g_x.shape, g_agg.shape),
                       data |-> CatLast(g_x.data, g_agg.data)]
          /\ g_status' = "ok"
     ELSE /\ g_status' = "error"
          /\ UNCHANGED g_out
  /\ g_pc' = "done"
  /\ UNCHANGED <<g_self, g_graph, g_x0, g_x, attn_probs, g_agg>>
  /\ UNCHANGED <<resVars, aggVars, ctorVars, prepVars>>

(* --------------------------- claims on GAT forward ---------------------- *)

(* C6: forward completes without a shape error and returns a tensor of     *)
(* shape [N, 2*dim] whose first dim columns are the input x.               *)
C6_GATOutputShape ==
  g_pc = "done" =>
    /\ g_status = "ok"
    /\ g_out.shape = <<g_graph.n, 2 * g_self.dim>>
    /\ \A v \in 1..g_graph.n :
         SubSeq(g_out.data[v], 1, g_self.dim) = g_x0.data[v]

(* C7: for every node v with exactly one incoming edge u -> v the edge's   *)
(* attention probability is 1 and the last dim columns of v's output row   *)
(* are x_u, in the same column order.                                      *)
C7_GATSingleNeighbour ==
  g_pc = "done" =>
    \A e \in g_graph.edges :
      Cardinality(InEdges(g_graph, e[2])) = 1 =>
        /\ attn_probs.data[e] = "one"
        /\ g_status = "ok"
        /\ SubSeq(g_out.data[e[2]], g_self.dim + 1, 2 * g_self.dim) = g_x0.data[e[1]]

(* =================== FeaturesPreparatorForDeepModels =================== *)

(* mask.sum(): the number of selected columns.                             *)
RECURSIVE MaskSum(_)
MaskSum(m) ==
  IF m = <<>> THEN 0 ELSE (IF m[1] THEN 1 ELSE 0) + MaskSum(Tail(m))

(* x[..., mask]: the columns the boolean mask selects, in order.           *)
RECURSIVE Select(_, _)
Select(x, m) ==
  IF m = <<>> THEN <<>>
  ELSE (IF m[1] THEN <<x[1]>> ELSE <<>>) \o Select(Tail(x), Tail(m))

(* ~mask                                                                   *)
Negate(m) == [i \in 1..Len(m) |-> ~m[i]]

(* torch.zeros(n, dtype=bool)                                              *)
Zeros(n) == [i \in 1..n |-> FALSE]

(* A column of the last axis: a raw input column, one entry of a PLR       *)
(* embedding of an input column, or one entry of a node embedding.         *)
Raw(c) == [kind |-> "raw", col |-> c, k |-> 0]

(* PLREmbeddings.forward followed by flatten(start_dim=-2): every input    *)
(* column becomes embedding_dim adjacent columns.                          *)
PLRFlatten(cols, embedding_dim, kind) ==
  [i \in 1..(Len(cols) * embedding_dim) |->
     [kind |-> kind,
      col |-> cols[((i - 1) \div embedding_dim) + 1].col,
      k |-> ((i - 1) % embedding_dim) + 1]]

(* The outcomes of a PLREmbeddings module built for features_dim columns   *)
(* on an input of Len(cols) columns: the embedding when the counts agree;  *)
(* otherwise a shape error (per-feature parameters) or the embedding of    *)
(* the columns given (shared parameters).                                  *)
PLROutcomes(cols, features_dim, embedding_dim, kind) ==
  IF Len(cols) = features_dim
  THEN {[ok |-> TRUE, cols |-> PLRFlatten(cols, embedding_dim, kind)]}
  ELSE {[ok |-> FALSE, cols |-> <<>>],
        [ok |-> TRUE, cols |-> PLRFlatten(cols, embedding_dim, kind)]}

(* A faulty variant of OutputDim: the replaced numeric columns are still   *)
(* counted.                                                                *)
OutputDimKeepsNumColumns(cfg) ==
  LET d0 == cfg.features_dim
      d1 == IF cfg.use_learnable_node_embeddings
            THEN d0 + cfg.learnable_node_embeddings_dim ELSE d0
      d2 == IF cfg.use_plr_for_num_features
            THEN d1 + MaskSum(cfg.num_features_mask) * cfg.plr_num_features_embedding_dim
            ELSE d1
      d3 == IF cfg.use_plr_for_past_targets
            THEN d2 - MaskSum(cfg.past_targets_mask)
                 + MaskSum(cfg.past_targets_mask) * cfg.plr_past_targets_embedding_dim
            ELSE d2
  IN d3

(* __init__, lines 196-248: output_dim accumulated option by option.       *)
OutputDim(cfg) ==
  LET d0 == cfg.features_dim
      d1 == IF cfg.use_learnable_node_embeddings
            THEN d0 + cfg.learnable_node_embeddings_dim ELSE d0
      d2 == IF cfg.use_plr_for_num_features
            THEN d1 - MaskSum(cfg.num_features_mask)
                 + MaskSum(cfg.num_features_mask) * cfg.plr_num_features_embedding_dim
            ELSE d1
      d3 == IF cfg.use_plr_for_past_targets
            THEN d2 - MaskSum(cfg.past_targets_mask)
                 + MaskSum(cfg.past_targets_mask) * cfg.plr_past_targets_embedding_dim
            ELSE d2
  IN d3

(* A faulty variant of StoredPastTargetsMask: no shift past the embedded   *)
(* numeric block.                                                          *)
StoredPastTargetsMaskNoShift(cfg) ==
  IF cfg.use_plr_for_num_features
  THEN Select(cfg.past_targets_mask, Negate(cfg.num_features_mask))
  ELSE cfg.past_targets_mask

(* __init__, lines 239-246: the past-targets mask registered as a buffer.  *)
StoredPastTargetsMask(cfg) ==
  IF cfg.use_plr_for_num_features
  THEN LET filtered == Select(cfg.past_targets_mask, Negate(cfg.num_features_mask))
           num_features_dim == MaskSum(cfg.num_features_mask)
           embedded_num_features_dim ==
             num_features_dim * cfg.plr_num_features_embedding_dim
       IN Zeros(embedded_num_features_dim) \o filtered
  ELSE cfg.past_targets_mask

(* __init__: raises when the DeepWalk initialisation is asked for with a   *)
(* mismatching dimension; otherwise sets output_dim and the buffers.       *)
PrepInit ==
  /\ p_pc = "new"
  /\ IF /\ p_cfg.use_learnable_node_embeddings
        /\ p_cfg.initialize_learnable_node_embeddings_with_deepwalk
        /\ p_cfg.learnable_node_embeddings_dim # p_cfg.deepwalk_dim
     THEN /\ p_pc' = "raised"
          /\ UNCHANGED <<output_dim, num_features_mask, past_targets_mask>>
     ELSE /\ p_pc' = "constructed"
          /\ output_dim' = OutputDim(p_cfg)
          /\ num_features_mask' =
               IF p_cfg.use_plr_for_num_features THEN p_cfg.num_features_mask ELSE <<>>
          /\ past_targets_mask' =
               IF p_cfg.use_plr_for_past_targets THEN StoredPastTargetsMask(p_cfg) ELSE <<>>
  /\ UNCHANGED <<p_cfg, p_lead, p_x, p_status>>
  /\ UNCHANGED <<resVars, aggVars, ctorVars, gatVars>>

(* The axes of forward's x before the last: [rows] for a 2-axis x and     *)
(* [rows, seq_len] for a 3-axis x.                                         *)
LeadingAxes ==
  {<<r>> : r \in 1..MaxRows} \cup {<<r, t>> : r \in 1..MaxRows, t \in {MaxRows}}

(* A forward call on an input whose last axis has features_dim columns.    *)
PrepForwardBegin ==
  /\ p_pc \in {"constructed", "done"}
  /\ p_lead' \in LeadingAxes
  /\ p_x' = [c \in 1..p_cfg.features_dim |-> Raw(c)]
  /\ p_status' = "none"
  /\ p_pc' = "num"
  /\ UNCHANGED <<p_cfg, output_dim, num_features_mask, past_targets_mask>>
  /\ UNCHANGED <<resVars, aggVars, ctorVars, gatVars>>

(* forward, lines 251-254.                                                 *)
PrepForwardNum ==
  /\ p_pc = "num"
  /\ IF p_cfg.use_plr_for_num_features
     THEN LET x_num == Select(p_x, num_features_mask)
          IN \E r \in PLROutcomes(x_num, MaskSum(p_cfg.num_features_mask),
                                 p_cfg.plr_num_features_embedding_dim, "num_embedded") :
               IF r.ok
               THEN /\ p_x' = r.cols \o Select(p_x, Negate(num_features_mask))
                    /\ p_pc' = "targets"
                    /\ UNCHANGED p_status
               ELSE /\ p_status' = "error"
                    /\ p_pc' = "done"
                    /\ UNCHANGED p_x
     ELSE /\ p_pc' = "targets"
          /\ UNCHANGED <<p_x, p_status>>
  /\ UNCHANGED <<p_cfg, output_dim, num_features_mask, past_targets_mask, p_lead>>
  /\ UNCHANGED <<resVars, aggVars, ctorVars, gatVars>>

(* forward, lines 256-259.                                                 *)
PrepForwardTargets ==
  /\ p_pc = "targets"
  /\ IF p_cfg.use_plr_for_past_targets
     THEN IF Len(past_targets_mask) # Len(p_x)
          THEN /\ p_status' = "error"
               /\ p_pc' = "done"
               /\ UNCHANGED p_x
          ELSE LET x_targets == Select(p_x, past_targets_mask)
               IN \E r \in PLROutcomes(x_targets, MaskSum(p_cfg.past_targets_mask),
                                      p_cfg.plr_past_targets_embedding_dim,
                                      "targets_embedded") :
                    IF r.ok
                    THEN /\ p_x' = r.cols \o Select(p_x, Negate(past_targets_mask))
                         /\ p_pc' = "emb"
                         /\ UNCHANGED p_status
                    ELSE /\ p_status' = "error"
                         /\ p_pc' = "done"
                         /\ UNCHANGED p_x
     ELSE /\ p_pc' = "emb"
          /\ UNCHANGED <<p_x, p_status>>
  /\ UNCHANGED <<p_cfg, output_dim, num_features_mask, past_targets_mask, p_lead>>
  /\ UNCHANGED <<resVars, aggVars, ctorVars, gatVars>>

(* The leading axes of node_embs, lines 262-268: the embedding table's     *)
(* num_nodes rows repeated x.shape[0] // num_nodes times, and for a 3-axis *)
(* x expanded along the sequence axis.                                     *)
NodeEmbsLeading(lead, num_nodes) ==
  LET graph_batch_size == lead[1] \div num_nodes
      rows == num_nodes * graph_batch_size
  IN IF Len(lead) = 2 THEN <<rows, lead[2]>> ELSE <<rows>>

(* forward, lines 261-272.                                                 *)
PrepForwardEmb ==
  /\ p_pc = "emb"
  /\ IF p_cfg.use_learnable_node_embeddings
     THEN IF NodeEmbsLeading(p_lead, p_cfg.num_nodes) = p_lead
          THEN /\ p_x' = p_x \o [j \in 1..p_cfg.learnable_node_embeddings_dim |->
                                   [kind |-> "node_embedding", col |-> 0, k |-> j]]
               /\ p_status' = "ok"
          ELSE /\ p_status' = "error"
               /\ UNCHANGED p_x
     ELSE /\ p_status' = "ok"
          /\ UNCHANGED p_x
  /\ p_pc' = "done"
  /\ UNCHANGED <<p_cfg, output_dim, num_features_mask, past_targets_mask, p_lead>>
  /\ UNCHANGED <<resVars, aggVars, ctorVars, gatVars>>

(* ------------------- claims on the features preparator ------------------ *)

Constructed == p_pc \in {"constructed", "num", "targets", "emb", "done"}

NumColumns == MaskSum(p_cfg.num_features_mask)

PastColumns == MaskSum(p_cfg.past_targets_mask)

MasksDisjoint ==
  \A c \in 1..p_cfg.features_dim :
    ~(p_cfg.num_features_mask[c] /\ p_cfg.past_targets_mask[c])

(* C8: output_dim is features_dim plus the size delta of each enabled      *)
(* option (k*e - k for the numeric PLR, p*e' - p for the past-targets PLR, *)
(* n for the node embeddings), from construction on and through forward.   *)
C8_OutputDimClosedForm ==
  Constructed =>
    output_dim =
      p_cfg.features_dim
      + (IF p_cfg.use_plr_for_num_features
         THEN NumColumns * p_cfg.plr_num_features_embedding_dim - NumColumns ELSE 0)
      + (IF p_cfg.use_plr_for_past_targets
         THEN PastColumns * p_cfg.plr_past_targets_embedding_dim - PastColumns ELSE 0)
      + (IF p_cfg.use_learnable_node_embeddings
         THEN p_cfg.learnable_node_embeddings_dim ELSE 0)

(* A finished forward of a preparator with all three options enabled.      *)
C8_Witness ==
  /\ p_pc = "done"
  /\ p_status = "ok"
  /\ p_cfg.use_plr_for_num_features
  /\ p_cfg.use_plr_for_past_targets
  /\ p_cfg.use_learnable_node_embeddings
  /\ NumColumns >= 1
  /\ PastColumns >= 1
  /\ p_cfg.plr_num_features_embedding_dim >= 2
  /\ p_cfg.plr_past_targets_embedding_dim >= 2
  /\ output_dim > p_cfg.features_dim + p_cfg.learnable_node_embeddings_dim

(* C9: with both PLR options enabled and disjoint masks, the stored        *)
(* past-targets mask has length k*e + (F - k) and selects, from the layout *)
(* step 1 of forward produces, exactly the original past-target columns in *)
(* their original order; with the numeric PLR disabled the stored mask is  *)
(* the original past_targets_mask.                                         *)
C9_ShiftedPastTargetsMask ==
  (Constructed /\ p_cfg.use_plr_for_past_targets) =>
    /\ (p_cfg.use_plr_for_num_features /\ MasksDisjoint) =>
         /\ Len(past_targets_mask) =
              NumColumns * p_cfg.plr_num_features_embedding_dim
              + (p_cfg.features_dim - NumColumns)
         /\ p_pc = "targets" =>
              /\ Len(p_x) = Len(past_targets_mask)
              /\ \A i \in 1..(NumColumns * p_cfg.plr_num_features_embedding_dim) :
                   /\ p_x[i].kind = "num_embedded"
                   /\ ~past_targets_mask[i]
              /\ LET picked == Select(p_x, past_targets_mask)
                     original == {c \in 1..p_cfg.features_dim : p_cfg.past_targets_mask[c]}
                 IN /\ Len(picked) = Cardinality(original)
                    /\ \A i \in 1..Len(picked) :
                         /\ picked[i].kind = "raw"
                         /\ picked[i].col \in original
                         /\ \A j \in 1..(i - 1) : picked[j].col < picked[i].col
    /\ ~p_cfg.use_plr_for_num_features => past_targets_mask = p_cfg.past_targets_mask

(* Step 1 has run with a numeric column ahead of a past-target column.     *)
C9_Witness ==
  /\ p_pc = "targets"
  /\ p_cfg.use_plr_for_num_features
  /\ p_cfg.use_plr_for_past_targets
  /\ MasksDisjoint
  /\ p_cfg.plr_num_features_embedding_dim >= 2
  /\ PastColumns >= 1
  /\ \E c1, c2 \in 1..p_cfg.features_dim :
       /\ c1 < c2
       /\ p_cfg.num_features_mask[c1]
       /\ p_cfg.past_targets_mask[c2]

(* C10: the last axis of the tensor forward returns has output_dim         *)
(* columns, for every combination of the switches and every pair of masks. *)
C10_ForwardWidthIsOutputDim ==
  (p_pc = "done" /\ p_status = "ok") => Len(p_x) = output_dim

IdleResidual ==
  /\ r_pc = "idle"
  /\ r_arg = [single |-> FALSE, modules |-> <<>>]
  /\ wrapped_modules = <<>>
  /\ r_graph = "none"
  /\ r_x = NoTensor
  /\ x_res = NoTensor
  /\ r_idx = 0
  /\ r_calls = <<>>
  /\ r_status = "none"
  /\ r_ret = NoRet

IdleAggr ==
  /\ a_pc = "idle"
  /\ a_op = "none"
  /\ a_graph = [n |-> 0, edges |-> {}]
  /\ a_x = <<>>
  /\ x_aggregated = <<>>
  /\ a_out = <<>>

IdleCtor ==
  /\ c_pc = "idle"
  /\ c_cls = "none"
  /\ c_dim = 0
  /\ c_heads = 0
  /\ c_step = 0
  /\ c_attrs = {}

IdleGat ==
  /\ g_pc = "idle"
  /\ g_self = [dim |-> 0, num_heads |-> 0, head_dim |-> 0]
  /\ g_graph = [n |-> 0, edges |-> {}]
  /\ g_x0 = NoShaped
  /\ g_x = NoShaped
  /\ attn_probs = NoShaped
  /\ g_agg = NoShaped
  /\ g_status = "none"
  /\ g_out = NoShaped

IdlePrep ==
  /\ p_pc = "idle"
  /\ p_cfg = <<>>
  /\ output_dim = 0
  /\ num_features_mask = <<>>
  /\ past_targets_mask = <<>>
  /\ p_lead = <<>>
  /\ p_x = <<>>
  /\ p_status = "none"

InitResidual ==
  /\ IdleAggr
  /\ IdleCtor
  /\ IdleGat
  /\ IdlePrep
  /\ r_pc = "new"
  /\ r_arg \in [single : {TRUE}, modules : ModuleSet]
               \cup [single : {FALSE}, modules : ModuleLists]
  /\ wrapped_modules = <<>>
  /\ r_graph = "none"
  /\ r_x = NoTensor
  /\ x_res = NoTensor
  /\ r_idx = 0
  /\ r_calls = <<>>
  /\ r_status = "none"
  /\ r_ret = NoRet

InitMean ==
  /\ IdleResidual
  /\ IdleCtor
  /\ IdleGat
  /\ IdlePrep
  /\ a_pc = "start"
  /\ a_op = "mean"
  /\ \E n \in 1..AggrNodes, d \in 1..AggrDim :
       /\ a_graph \in Graphs(n)
       /\ a_x \in Tensors2D(n, d, MeanValues)
  /\ x_aggregated = <<>>
  /\ a_out = <<>>

InitMax ==
  /\ IdleResidual
  /\ IdleCtor
  /\ IdleGat
  /\ IdlePrep
  /\ a_pc = "start"
  /\ a_op = "max"
  /\ \E n \in 1..AggrNodes, d \in 1..AggrDim :
       /\ a_graph \in Graphs(n)
       /\ a_x \in Tensors2D(n, d, MaxValues)
  /\ x_aggregated = <<>>
  /\ a_out = <<>>

InitCtor ==
  /\ IdleResidual
  /\ IdleAggr
  /\ IdleGat
  /\ IdlePrep
  /\ c_pc = "start"
  /\ c_cls \in {"GraphAttnGATAggregationModule", "GraphAttnTrfAggregationModule",
                "TransformerSequenceEncoderModule"}
  /\ c_dim \in 1..CtorMaxDim
  /\ c_heads \in 1..CtorMaxHeads
  /\ c_step = 1
  /\ c_attrs = {}

(* A module whose construction passed the consistency check, and the       *)
(* arguments of one forward call.                                          *)
InitGat ==
  /\ IdleResidual
  /\ IdleAggr
  /\ IdleCtor
  /\ IdlePrep
  /\ g_pc = "start"
  /\ \E dim \in 1..GatDim, num_heads \in 1..GatDim, n \in 1..GatNodes :
       /\ check_dim_and_num_heads_consistency(dim, num_heads)
       /\ g_self = [dim |-> dim, num_heads |-> num_heads, head_dim |-> dim \div num_heads]
       /\ g_graph \in Graphs(n)
       /\ \E data \in Tensors2D(n, dim, {Known(0), Known(1)}) :
            /\ g_x0 = [shape |-> <<n, dim>>, data |-> data]
            /\ g_x = [shape |-> <<n, dim>>, data |-> data]
  /\ attn_probs = NoShaped
  /\ g_agg = NoShaped
  /\ g_status = "none"
  /\ g_out = NoShaped

Masks(n) == [1..n -> BOOLEAN]

(* The arguments of one PLR option: the switch, the mask over the f input  *)
(* columns, and the embedding dimension, which varies only when the option *)
(* is enabled.                                                             *)
PLRArgs(f) ==
  [use : {TRUE}, mask : Masks(f), embedding_dim : 1..MaxEmbedding]
  \cup [use : {FALSE}, mask : Masks(f), embedding_dim : {MaxEmbedding}]

(* The node-embedding arguments.  deepwalk_node_embeddings is None         *)
(* (deepwalk_dim 0) unless the initialisation from it is asked for, and    *)
(* the table's sizes vary only when the table is used.                     *)
NodeEmbeddingArgs ==
  [use : {FALSE}, num_nodes : {1}, dim : {MaxEmbedding}, deepwalk : {FALSE},
   deepwalk_dim : {0}]
  \cup [use : {TRUE}, num_nodes : 1..MaxRows, dim : 1..MaxEmbedding, deepwalk : {FALSE},
        deepwalk_dim : {0}]
  \cup [use : {TRUE}, num_nodes : 1..MaxRows, dim : 1..MaxEmbedding, deepwalk : {TRUE},
        deepwalk_dim : 1..MaxEmbedding]

InitPrep ==
  /\ IdleResidual
  /\ IdleAggr
  /\ IdleCtor
  /\ IdleGat
  /\ p_pc = "new"
  /\ \E f \in 1..MaxFeatures :
       \E num \in PLRArgs(f), pt \in PLRArgs(f), ne \in NodeEmbeddingArgs :
         p_cfg = [features_dim |-> f,
                  use_learnable_node_embeddings |-> ne.use,
                  num_nodes |-> ne.num_nodes,
                  learnable_node_embeddings_dim |-> ne.dim,
                  initialize_learnable_node_embeddings_with_deepwalk |-> ne.deepwalk,
                  deepwalk_dim |-> ne.deepwalk_dim,
                  use_plr_for_num_features |-> num.use,
                  num_features_mask |-> num.mask,
                  plr_num_features_embedding_dim |-> num.embedding_dim,
                  use_plr_for_past_targets |-> pt.use,
                  past_targets_mask |-> pt.mask,
                  plr_past_targets_embedding_dim |-> pt.embedding_dim]
  /\ output_dim = 0
  /\ num_features_mask = <<>>
  /\ past_targets_mask = <<>>
  /\ p_lead = <<>>
  /\ p_x = <<>>
  /\ p_status = "none"

NextPrep ==
  \/ PrepInit
  \/ PrepForwardBegin
  \/ PrepForwardNum
  \/ PrepForwardTargets
  \/ PrepForwardEmb

NextCtor ==
  \/ GATInit
  \/ TrfInit
  \/ TransformerInit

NextGat ==
  \/ GATForwardScores
  \/ GATForwardReshape
  \/ GATForwardAggregate
  \/ GATForwardCat

NextMean ==
  \/ MeanForwardAggregate
  \/ MeanForwardCat

NextMax ==
  \/ MaxForwardAggregate
  \/ MaxForwardMask
  \/ MaxForwardCat

NextResidual ==
  \/ ResidualInit
  \/ ResidualForwardBegin
  \/ ResidualForwardCall
  \/ ResidualForwardAdd

SpecResidual == InitResidual /\ [][NextResidual]_vars

SpecMean == InitMean /\ [][NextMean]_vars

SpecMax == InitMax /\ [][NextMax]_vars

SpecCtor == InitCtor /\ [][NextCtor]_vars

SpecGat == InitGat /\ [][NextGat]_vars

SpecPrep == InitPrep /\ [][NextPrep]_vars

====
